---- MODULE Spec2Model ----
(***************************************************************************)
(* Model of src/reproduce/ilharco2023editing.py: a straight-line script    *)
(* that selects a model list from DATASET, loads the base pipeline, merges *)
(* the models with mergecraft.task, saves the merged weights, evaluates    *)
(* the merged pipeline and writes record.json beside the weights.          *)
(*                                                                         *)
(* The script's collaborators (transformers.pipeline, mergecraft.task,     *)
(* save_pretrained, evaluate_glue_pipeline, open, json.dump) are opaque:   *)
(* each call either returns or raises, takes some time on the wall clock,  *)
(* and the evaluator returns some accuracy mapping.                        *)
(***************************************************************************)
EXTENDS Integers, Sequences, FiniteSets, TLC

VARIABLES
    pc,          \* position of the script: the statement to run next
    DATASET,     \* module constant, line 7
    SPLIT,       \* module constant, line 8
    models,      \* line 11 / 13
    pipe,        \* lines 15, 18
    t0,          \* line 17
    dt,          \* line 19
    res,         \* res.accuracy, line 26
    record,      \* lines 30-37
    clock,       \* the wall clock read by time.time()
    objs,        \* number of pipeline objects created so far
    calls,       \* names of the collaborator calls made, in order
    pipelineCalls, \* arguments of each transformers.pipeline call
    mergeCalls,  \* arguments, result and clock span of each mergecraft.task call
    saved,       \* completed save_pretrained calls: directory and pipeline
    evalCalls,   \* arguments of each evaluate_glue_pipeline call
    files,       \* files opened for writing by the script: path and content
    failedAt     \* the call that raised, "" while none has

vars == <<pc, DATASET, SPLIT, models, pipe, t0, dt, res, record, clock, objs,
          calls, pipelineCalls, mergeCalls, saved, evalCalls, files, failedAt>>

-----------------------------------------------------------------------------
(* Bounds *)

\* Longest time, in clock ticks, one collaborator call may take.
MaxTick == 2

\* Values DATASET may be edited to (line 7 and its comment), plus a typo.
DatasetNames == {"rte", "sst2", "", "rtee"}

SplitNames == {"validation", "train"}

-----------------------------------------------------------------------------
(* Python values: a string, a number or a dict, one record shape for all *)

Str(s) == [t |-> "str", s |-> s, n |-> 0, m |-> <<>>]

Num(n) == [t |-> "num", s |-> "", n |-> n, m |-> <<>>]

Dict(d) == [t |-> "dict", s |-> "", n |-> 0, m |-> d]

(* A Python dict: its items in insertion order, keys distinct *)

Item(k, v) == [key |-> k, val |-> v]

Keys(d) == {d[i].key : i \in 1..Len(d)}

Get(d, k) == d[CHOOSE i \in 1..Len(d) : d[i].key = k].val

\* d[k] = v: an existing key keeps its position and takes the new value,
\* a new key goes last.
SetItem(d, k, v) ==
    IF k \in Keys(d)
    THEN [i \in 1..Len(d) |-> IF d[i].key = k THEN Item(k, v) ELSE d[i]]
    ELSE Append(d, Item(k, v))

\* The items of a dict display {k1: v1, ..., **e} applied left to right.
RECURSIVE Update(_, _)
Update(d, e) ==
    IF e = <<>> THEN d
    ELSE Update(SetItem(d, Head(e).key, Head(e).val), Tail(e))

-----------------------------------------------------------------------------
(* Lines 10-13: the model lists *)

RteModels ==
    << "google-bert/bert-base-uncased",
       "textattack/bert-base-uncased-RTE",
       "yoshitomo-matsubara/bert-base-uncased-rte",
       "Ruizhou/bert-base-uncased-finetuned-rte",
       "howey/bert-base-uncased-rte",
       "anirudh21/bert-base-uncased-finetuned-rte" >>

Sst2Models ==
    << "google-bert/bert-base-uncased",
       "aviator-neural/bert-base-uncased-sst2",
       "howey/bert-base-uncased-sst2",
       "yoshitomo-matsubara/bert-base-uncased-sst2",
       "ikevin98/bert-base-uncased-finetuned-sst2",
       "TehranNLP-org/bert-base-uncased-cls-sst2" >>

ModelsForSwapped(D) == IF D = "rte" THEN Sst2Models ELSE RteModels

ModelsFor(D) == IF D = "rte" THEN RteModels ELSE Sst2Models

BaseIndexLast == Len(RteModels) - 1

\* base_index=0 of the merge call; Python indexes from 0, sequences from 1.
BaseIndex == 0

At(seq, i) == seq[i + 1]

ValidIndex(seq, i) == 0 <= i /\ i < Len(seq)

-----------------------------------------------------------------------------
(* Lines 22, 34, 38: the three f-strings *)

SaveDirFlat(D, S) == "./artifacts/merged_weights_task_" \o D \o S

SaveDir(D, S) == "./artifacts/merged_weights_task_" \o D \o "_" \o S

RecordDirectory(D, S) == "./artifacts/merged_weights_task_" \o D \o "_" \o S

RecordPath(D, S) ==
    "./artifacts/merged_weights_task_" \o D \o "_" \o S \o "/record.json"

-----------------------------------------------------------------------------
(* Lines 30-37: the record *)

FixedItemsNormalised(D, S, d) ==
    << Item("method", Str("task")),
       Item("dataset", Str(IF D = "rte" THEN "rte" ELSE "sst2")),
       Item("split", Str(S)),
       Item("directory", Str(RecordDirectory(D, S))),
       Item("time", Num(d)) >>

FixedItems(D, S, d) ==
    << Item("method", Str("task")),
       Item("dataset", Str(D)),
       Item("split", Str(S)),
       Item("directory", Str(RecordDirectory(D, S))),
       Item("time", Num(d)) >>

MakeRecordNested(D, S, d, acc) ==
    Update(<<>>, FixedItems(D, S, d) \o <<Item("accuracy", Dict(acc))>>)

MakeRecordFixedLast(D, S, d, acc) ==
    Update(<<>>, acc \o FixedItems(D, S, d))

MakeRecord(D, S, d, acc) == Update(<<>>, FixedItems(D, S, d) \o acc)

(* Line 39: json.dump writes the items in order, each value by its JSON kind *)

JsonValue(v) ==
    CASE v.t = "str" -> [json |-> "string", s |-> v.s, n |-> 0]
      [] v.t = "num" -> [json |-> "number", s |-> "", n |-> v.n]
      [] OTHER -> [json |-> "object", s |-> "", n |-> Len(v.m)]

JsonDump(d) == [i \in 1..Len(d) |-> [key |-> d[i].key, val |-> JsonValue(d[i].val)]]

-----------------------------------------------------------------------------
(* The collaborators' results *)

NoPipe == [kind |-> "none", id |-> 0, models |-> <<>>]

\* transformers.pipeline(task, model=m, ...): a new pipeline of one model.
BasePipe(id, m) == [kind |-> "base", id |-> id, models |-> <<m>>]

\* mergecraft.task(ms, ...): a new pipeline merged from ms.
MergedPipe(id, ms) == [kind |-> "merged", id |-> id, models |-> ms]

\* res.accuracy: a mapping from metric names to numbers; the names are the
\* evaluator's choice and may coincide with the record's fixed field names.
AccuracyMappings ==
    { <<>>,
      <<Item("accuracy", Num(81))>>,
      <<Item("accuracy", Num(81)), Item("f1", Num(70))>>,
      <<Item("method", Num(5))>>,
      <<Item("accuracy", Num(81)), Item("dataset", Num(6))>>,
      <<Item("split", Num(7)), Item("accuracy", Num(81))>>,
      <<Item("directory", Num(8))>>,
      <<Item("accuracy", Num(81)), Item("time", Num(9))>> }

Ticks == 0..MaxTick

-----------------------------------------------------------------------------
(* The script *)

Init ==
    /\ pc = "select"
    /\ DATASET \in DatasetNames
    /\ SPLIT \in SplitNames
    /\ models = <<>>
    /\ pipe = NoPipe
    /\ t0 = 0
    /\ dt = 0
    /\ res = <<>>
    /\ record = <<>>
    /\ clock \in Ticks
    /\ objs = 0
    /\ calls = <<>>
    /\ pipelineCalls = <<>>
    /\ mergeCalls = <<>>
    /\ saved = <<>>
    /\ evalCalls = <<>>
    /\ files = <<>>
    /\ failedAt = ""

\* An uncaught exception in call f: the process ends there.
Raise(f) ==
    /\ pc' = "failed"
    /\ failedAt' = f

\* Lines 10-13
SelectModels ==
    /\ pc = "select"
    /\ models' = ModelsFor(DATASET)
    /\ pc' = "load"
    /\ UNCHANGED <<DATASET, SPLIT, pipe, t0, dt, res, record, clock, objs, calls,
                   pipelineCalls, mergeCalls, saved, evalCalls, files, failedAt>>

\* Line 15
LoadBasePipeline ==
    /\ pc = "load"
    /\ calls' = Append(calls, "pipeline")
    /\ pipelineCalls' = Append(pipelineCalls,
                               [task |-> "text-classification", model |-> At(models, 0)])
    /\ \E d \in Ticks : clock' = clock + d
    /\ \/ /\ pipe' = BasePipe(objs + 1, At(models, 0))
          /\ objs' = objs + 1
          /\ pc' = "t0"
          /\ UNCHANGED failedAt
       \/ /\ Raise("pipeline")
          /\ UNCHANGED <<pipe, objs>>
    /\ UNCHANGED <<DATASET, SPLIT, models, t0, dt, res, record,
                   mergeCalls, saved, evalCalls, files>>

\* Line 17
ReadT0 ==
    /\ pc = "t0"
    /\ t0' = clock
    /\ pc' = "merge"
    /\ UNCHANGED <<DATASET, SPLIT, models, pipe, dt, res, record, clock, objs, calls,
                   pipelineCalls, mergeCalls, saved, evalCalls, files, failedAt>>

\* Line 18
MergeKeepsBase ==
    /\ pc = "merge"
    /\ calls' = Append(calls, "task")
    /\ \E d \in Ticks :
        /\ clock' = clock + d
        /\ \/ /\ objs' = objs + 1
              /\ mergeCalls' = Append(mergeCalls,
                    [models |-> models, base_index |-> BaseIndex, signs |-> "None",
                     task |-> "text-classification",
                     result |-> MergedPipe(objs + 1, models),
                     begin |-> clock, end |-> clock + d])
              /\ pc' = "dt"
              /\ UNCHANGED <<pipe, failedAt>>
           \/ /\ Raise("task")
              /\ mergeCalls' = Append(mergeCalls,
                    [models |-> models, base_index |-> BaseIndex, signs |-> "None",
                     task |-> "text-classification", result |-> NoPipe,
                     begin |-> clock, end |-> clock + d])
              /\ UNCHANGED <<pipe, objs>>
    /\ UNCHANGED <<DATASET, SPLIT, models, t0, dt, res, record,
                   pipelineCalls, saved, evalCalls, files>>

MergeArgs(result, begin, end) ==
    [models |-> models, base_index |-> BaseIndex, signs |-> "None",
     task |-> "text-classification", result |-> result,
     begin |-> begin, end |-> end]

Merge ==
    /\ pc = "merge"
    /\ calls' = Append(calls, "task")
    /\ \E d \in Ticks :
        /\ clock' = clock + d
        /\ \/ /\ pipe' = MergedPipe(objs + 1, models)
              /\ objs' = objs + 1
              /\ mergeCalls' = Append(mergeCalls,
                                      MergeArgs(MergedPipe(objs + 1, models), clock, clock + d))
              /\ pc' = "dt"
              /\ UNCHANGED failedAt
           \/ /\ Raise("task")
              /\ mergeCalls' = Append(mergeCalls, MergeArgs(NoPipe, clock, clock + d))
              /\ UNCHANGED <<pipe, objs>>
    /\ UNCHANGED <<DATASET, SPLIT, models, t0, dt, res, record,
                   pipelineCalls, saved, evalCalls, files>>

\* Lines 19-20
ComputeDtSkipsSave ==
    /\ pc = "dt"
    /\ dt' = clock - t0
    /\ pc' = "evaluate"
    /\ UNCHANGED <<DATASET, SPLIT, models, pipe, t0, res, record, clock, objs, calls,
                   pipelineCalls, mergeCalls, saved, evalCalls, files, failedAt>>

ComputeDtNoStart ==
    /\ pc = "dt"
    /\ dt' = clock
    /\ pc' = "save"
    /\ UNCHANGED <<DATASET, SPLIT, models, pipe, t0, res, record, clock, objs, calls,
                   pipelineCalls, mergeCalls, saved, evalCalls, files, failedAt>>

ComputeDt ==
    /\ pc = "dt"
    /\ dt' = clock - t0
    /\ pc' = "save"
    /\ UNCHANGED <<DATASET, SPLIT, models, pipe, t0, res, record, clock, objs, calls,
                   pipelineCalls, mergeCalls, saved, evalCalls, files, failedAt>>

\* Line 22
SaveWeights ==
    /\ pc = "save"
    /\ calls' = Append(calls, "save_pretrained")
    /\ \E d \in Ticks : clock' = clock + d
    /\ \/ /\ saved' = Append(saved, [dir |-> SaveDir(DATASET, SPLIT), pipe |-> pipe])
          /\ pc' = "evaluate"
          /\ UNCHANGED failedAt
       \/ /\ Raise("save_pretrained")
          /\ UNCHANGED saved
    /\ UNCHANGED <<DATASET, SPLIT, models, pipe, t0, dt, res, record, objs,
                   pipelineCalls, mergeCalls, evalCalls, files>>

\* Lines 24-27
EvaluateSwallowsError ==
    /\ pc = "evaluate"
    /\ calls' = Append(calls, "evaluate_glue_pipeline")
    /\ evalCalls' = Append(evalCalls, [pipe |-> pipe, dataset |-> DATASET])
    /\ \E d \in Ticks : clock' = clock + d
    /\ \/ /\ \E acc \in AccuracyMappings : res' = acc
          /\ pc' = "record"
          /\ UNCHANGED failedAt
       \/ /\ failedAt' = "evaluate_glue_pipeline"
          /\ pc' = "record"
          /\ UNCHANGED res
    /\ UNCHANGED <<DATASET, SPLIT, models, pipe, t0, dt, record, objs,
                   pipelineCalls, mergeCalls, saved, files>>

Evaluate ==
    /\ pc = "evaluate"
    /\ calls' = Append(calls, "evaluate_glue_pipeline")
    /\ evalCalls' = Append(evalCalls, [pipe |-> pipe, dataset |-> DATASET])
    /\ \E d \in Ticks : clock' = clock + d
    /\ \/ /\ \E acc \in AccuracyMappings : res' = acc
          /\ pc' = "record"
          /\ UNCHANGED failedAt
       \/ /\ Raise("evaluate_glue_pipeline")
          /\ UNCHANGED res
    /\ UNCHANGED <<DATASET, SPLIT, models, pipe, t0, dt, record, objs,
                   pipelineCalls, mergeCalls, saved, files>>

\* Lines 29-37
BuildRecord ==
    /\ pc = "record"
    /\ record' = MakeRecord(DATASET, SPLIT, dt, res)
    /\ pc' = "open"
    /\ UNCHANGED <<DATASET, SPLIT, models, pipe, t0, dt, res, clock, objs, calls,
                   pipelineCalls, mergeCalls, saved, evalCalls, files, failedAt>>

\* Line 38: open(path, "w") creates or truncates the file.
OpenRecordFile ==
    /\ pc = "open"
    /\ calls' = Append(calls, "open")
    /\ \/ /\ files' = Append(files, [path |-> RecordPath(DATASET, SPLIT), content |-> <<>>])
          /\ pc' = "dump"
          /\ UNCHANGED failedAt
       \/ /\ Raise("open")
          /\ UNCHANGED files
    /\ UNCHANGED <<DATASET, SPLIT, models, pipe, t0, dt, res, record, clock, objs,
                   pipelineCalls, mergeCalls, saved, evalCalls>>

\* Line 39: json.dump(record, fp) into the file just opened.
DumpRecord ==
    /\ pc = "dump"
    /\ calls' = Append(calls, "json.dump")
    /\ \/ /\ files' = [files EXCEPT ![Len(files)].content = JsonDump(record)]
          /\ pc' = "done"
          /\ UNCHANGED failedAt
       \/ /\ Raise("json.dump")
          /\ UNCHANGED files
    /\ UNCHANGED <<DATASET, SPLIT, models, pipe, t0, dt, res, record, clock, objs,
                   pipelineCalls, mergeCalls, saved, evalCalls>>

Next ==
    \/ SelectModels
    \/ LoadBasePipeline
    \/ ReadT0
    \/ Merge
    \/ ComputeDt
    \/ SaveWeights
    \/ Evaluate
    \/ BuildRecord
    \/ OpenRecordFile
    \/ DumpRecord

Spec == Init /\ [][Next]_vars

-----------------------------------------------------------------------------
(* Properties *)

IsPrefix(s, t) == Len(s) <= Len(t) /\ \A i \in 1..Len(s) : s[i] = t[i]

\* The collaborator calls of a complete run, in the order of the source.
CallOrder ==
    <<"pipeline", "task", "save_pretrained", "evaluate_glue_pipeline", "open", "json.dump">>

FixedFields == {"method", "dataset", "split", "directory", "time"}

\* The record has been built (line 37 has run).
RecordBuilt == pc \in {"open", "dump", "done"} \/ failedAt \in {"open", "json.dump"}

\* The value line 30-35 gives fixed field k.
FixedValue(k) ==
    CASE k = "method" -> Str("task")
      [] k = "dataset" -> Str(DATASET)
      [] k = "split" -> Str(SPLIT)
      [] k = "directory" ->
            Str("./artifacts/merged_weights_task_" \o DATASET \o "_" \o SPLIT)
      [] OTHER -> Num(dt)

\* The member of a written JSON object with name k.
Member(content, k) == content[CHOOSE i \in 1..Len(content) : content[i].key = k].val

\* C1: for DATASET = "rte" the selector yields the six RTE identifiers in the
\* order of line 11, and the identifier at index 0 of the list is the one the
\* initial pipeline is built from.
C1_RteSelection ==
    (DATASET = "rte" /\ pc # "select") =>
        /\ models = << "google-bert/bert-base-uncased",
                       "textattack/bert-base-uncased-RTE",
                       "yoshitomo-matsubara/bert-base-uncased-rte",
                       "Ruizhou/bert-base-uncased-finetuned-rte",
                       "howey/bert-base-uncased-rte",
                       "anirudh21/bert-base-uncased-finetuned-rte" >>
        /\ \A i \in 1..Len(pipelineCalls) : pipelineCalls[i].model = models[1]
        /\ pipe.kind = "base" => pipe.models = <<models[1]>>

C1_Witness ==
    /\ DATASET = "rte"
    /\ pc = "t0"
    /\ pipe.kind = "base"
    /\ Len(pipelineCalls) = 1

\* C2 as stated: for every DATASET other than "rte" the selector yields the six
\* SST2 identifiers without raising, and the record's "dataset" field is the
\* dataset name as given.
C2_Original ==
    (DATASET # "rte" /\ pc # "select") =>
        /\ models = << "google-bert/bert-base-uncased",
                       "aviator-neural/bert-base-uncased-sst2",
                       "howey/bert-base-uncased-sst2",
                       "yoshitomo-matsubara/bert-base-uncased-sst2",
                       "ikevin98/bert-base-uncased-finetuned-sst2",
                       "TehranNLP-org/bert-base-uncased-cls-sst2" >>
        /\ pc = "load" => failedAt = ""
        /\ RecordBuilt => Get(record, "dataset") = Str(DATASET)

\* C2 amended: for every DATASET other than "rte" the selector yields the six
\* SST2 identifiers without raising, and the record's "dataset" field, in the
\* record and in the written file, is the dataset name as given unless the
\* accuracy mapping itself has a key "dataset".
C2_Sst2Fallback ==
    (DATASET # "rte" /\ pc # "select") =>
        /\ models = << "google-bert/bert-base-uncased",
                       "aviator-neural/bert-base-uncased-sst2",
                       "howey/bert-base-uncased-sst2",
                       "yoshitomo-matsubara/bert-base-uncased-sst2",
                       "ikevin98/bert-base-uncased-finetuned-sst2",
                       "TehranNLP-org/bert-base-uncased-cls-sst2" >>
        /\ pc = "load" => failedAt = ""
        /\ (RecordBuilt /\ "dataset" \notin Keys(res)) =>
              Get(record, "dataset") = Str(DATASET)
        /\ (pc = "done" /\ "dataset" \notin Keys(res)) =>
              Member(files[1].content, "dataset") =
                  [json |-> "string", s |-> DATASET, n |-> 0]

C2_Witness ==
    /\ DATASET = "rtee"
    /\ pc = "done"
    /\ "dataset" \notin Keys(res)
    /\ models[2] = "aviator-neural/bert-base-uncased-sst2"
    /\ Get(record, "dataset") = Str("rtee")

\* C3 as stated: the directory the weights are saved to, the record's
\* "directory" field and the directory holding record.json are the one path
\* ./artifacts/merged_weights_task_<DATASET>_<SPLIT>.
C3_Original ==
    LET dir == "./artifacts/merged_weights_task_" \o DATASET \o "_" \o SPLIT IN
    /\ \A i \in 1..Len(saved) : saved[i].dir = dir
    /\ \A i \in 1..Len(files) : files[i].path = dir \o "/record.json"
    /\ RecordBuilt => Get(record, "directory") = Str(dir)
    /\ (DATASET = "rte" /\ SPLIT = "validation") =>
          \A i \in 1..Len(saved) :
              saved[i].dir = "./artifacts/merged_weights_task_rte_validation"

\* C3 amended: the directory the weights are saved to and the directory
\* holding record.json are the one path
\* ./artifacts/merged_weights_task_<DATASET>_<SPLIT>, and the record's
\* "directory" field, in the record and in the written file, is that path
\* unless the accuracy mapping itself has a key "directory".
C3_OnePath ==
    LET dir == "./artifacts/merged_weights_task_" \o DATASET \o "_" \o SPLIT IN
    /\ \A i \in 1..Len(saved) : saved[i].dir = dir
    /\ \A i \in 1..Len(files) : files[i].path = dir \o "/record.json"
    /\ (RecordBuilt /\ "directory" \notin Keys(res)) =>
          Get(record, "directory") = Str(dir)
    /\ (pc = "done" /\ "directory" \notin Keys(res)) =>
          Member(files[1].content, "directory") =
              [json |-> "string", s |-> dir, n |-> 0]
    /\ (DATASET = "rte" /\ SPLIT = "validation") =>
          /\ \A i \in 1..Len(saved) :
                saved[i].dir = "./artifacts/merged_weights_task_rte_validation"
          /\ \A i \in 1..Len(files) :
                files[i].path =
                    "./artifacts/merged_weights_task_rte_validation/record.json"

C3_Witness ==
    /\ DATASET = "rte"
    /\ SPLIT = "validation"
    /\ pc = "done"
    /\ "directory" \notin Keys(res)
    /\ Len(saved) = 1
    /\ Len(files) = 1
    /\ Get(record, "directory") = Str(saved[1].dir)

\* C4: when the accuracy keys are disjoint from the fixed field names, the
\* record (and the written file) is flat, its keys are exactly the five fixed
\* names plus the accuracy keys, every fixed field holds the value given and
\* every metric key its metric value; "accuracy" is a key only when it is a
\* metric key, and no value is a nested mapping.
C4_FlatRecord ==
    (RecordBuilt /\ Keys(res) \cap FixedFields = {}) =>
        /\ Keys(record) = FixedFields \cup Keys(res)
        /\ Len(record) = Cardinality(FixedFields) + Len(res)
        /\ \A k \in FixedFields : Get(record, k) = FixedValue(k)
        /\ \A k \in Keys(res) : Get(record, k) = Get(res, k)
        /\ "accuracy" \in Keys(record) => "accuracy" \in Keys(res)
        /\ \A i \in 1..Len(record) : record[i].val.t # "dict"
        /\ pc = "done" =>
              /\ Len(files[1].content) = Len(record)
              /\ \A i \in 1..Len(record) :
                    /\ files[1].content[i].key = record[i].key
                    /\ files[1].content[i].val.json # "object"
                    /\ files[1].content[i].val.json = "number" =>
                          files[1].content[i].val.n = record[i].val.n
                    /\ files[1].content[i].val.json = "string" =>
                          files[1].content[i].val.s = record[i].val.s

C4_Witness ==
    /\ pc = "done"
    /\ DATASET = "rte"
    /\ SPLIT = "validation"
    /\ res = <<Item("accuracy", Num(81))>>
    /\ Len(files[1].content) = 6
    /\ Member(files[1].content, "accuracy") = [json |-> "number", s |-> "", n |-> 81]

\* C5: a key of the accuracy mapping that equals a fixed field name holds the
\* accuracy mapping's value in the record, and every other fixed field keeps
\* its own value.
C5_CollisionOverwrites ==
    RecordBuilt =>
        /\ \A k \in FixedFields \cap Keys(res) : Get(record, k) = Get(res, k)
        /\ \A k \in FixedFields \ Keys(res) : Get(record, k) = FixedValue(k)

C5_Witness ==
    /\ RecordBuilt
    /\ "method" \in Keys(res)
    /\ Get(record, "method") = Num(5)
    /\ Get(record, "method") # Str("task")
    /\ Get(record, "dataset") = Str(DATASET)

\* C6: while no collaborator has failed, the calls made are an initial part of
\* pipeline, merge, save, evaluate, open, dump in that order, each at most
\* once; a complete run made each exactly once, with exactly one weights save
\* and one record.json write.
C6_StrictOrder ==
    failedAt = "" =>
        /\ IsPrefix(calls, CallOrder)
        /\ Len(saved) <= 1 /\ Len(files) <= 1
        /\ saved # <<>> => (Len(mergeCalls) = 1 /\ mergeCalls[1].result.kind = "merged")
        /\ evalCalls # <<>> => Len(saved) = 1
        /\ files # <<>> => (Len(evalCalls) = 1 /\ RecordBuilt)
        /\ pc = "done" =>
              /\ calls = CallOrder
              /\ Len(mergeCalls) = 1
              /\ Len(saved) = 1
              /\ Len(evalCalls) = 1
              /\ Len(files) = 1
              /\ files[1].content = JsonDump(record)

C6_Witness ==
    /\ pc = "done"
    /\ failedAt = ""
    /\ Len(calls) = 6
    /\ Len(saved) = 1
    /\ Len(files) = 1

\* C7: a call that raises ends the run at that call: it is the last call made,
\* no call is made twice and nothing can follow; record.json is opened only
\* after load, merge, save and evaluation all returned, weights are saved only
\* after load and merge returned, and a failed evaluation leaves the saved
\* weights and no record.json.
C7_FailureStops ==
    /\ failedAt # "" =>
          /\ pc = "failed"
          /\ calls # <<>>
          /\ calls[Len(calls)] = failedAt
          /\ ~ENABLED Next
    /\ pc = "failed" => failedAt # ""
    /\ IsPrefix(calls, CallOrder)
    /\ files # <<>> =>
          /\ failedAt \notin {"pipeline", "task", "save_pretrained", "evaluate_glue_pipeline"}
          /\ Len(calls) >= 5
          /\ Len(saved) = 1
    /\ saved # <<>> =>
          /\ failedAt \notin {"pipeline", "task"}
          /\ Len(calls) >= 3
          /\ pipe.kind = "merged"
    /\ failedAt = "evaluate_glue_pipeline" => (Len(saved) = 1 /\ files = <<>>)
    /\ failedAt \in {"pipeline", "task", "save_pretrained"} =>
          (saved = <<>> /\ files = <<>>)

C7_Witness ==
    /\ failedAt = "evaluate_glue_pipeline"
    /\ pc = "failed"
    /\ Len(saved) = 1
    /\ files = <<>>

\* C8: on both branches the merge routine is called with the whole selected
\* list, base index 0, no signs and task "text-classification"; 0 is a valid
\* position of the six-element list and names google-bert/bert-base-uncased.
C8_MergeArguments ==
    \A i \in 1..Len(mergeCalls) :
        /\ mergeCalls[i].models = models
        /\ mergeCalls[i].models = (IF DATASET = "rte" THEN RteModels ELSE Sst2Models)
        /\ Len(mergeCalls[i].models) = 6
        /\ mergeCalls[i].base_index = 0
        /\ mergeCalls[i].signs = "None"
        /\ mergeCalls[i].task = "text-classification"
        /\ ValidIndex(mergeCalls[i].models, mergeCalls[i].base_index)
        /\ At(mergeCalls[i].models, mergeCalls[i].base_index) = "google-bert/bert-base-uncased"

C8_Witness ==
    /\ Len(mergeCalls) = 1
    /\ DATASET = "sst2"
    /\ mergeCalls[1].models[6] = "TehranNLP-org/bert-base-uncased-cls-sst2"

\* C9: the merge is called at most once, and once in a complete run; every
\* pipeline saved or evaluated is the merge's result, and the base pipeline
\* built on line 15 is replaced before any save or evaluation.
C9_MergedPipeOnly ==
    /\ Len(mergeCalls) <= 1
    /\ pc = "done" => Len(mergeCalls) = 1
    /\ \A i \in 1..Len(saved) :
          /\ saved[i].pipe.kind = "merged"
          /\ saved[i].pipe = mergeCalls[1].result
    /\ \A i \in 1..Len(evalCalls) :
          /\ evalCalls[i].pipe.kind = "merged"
          /\ evalCalls[i].pipe = mergeCalls[1].result
    /\ pipe.kind # "merged" => (saved = <<>> /\ evalCalls = <<>>)
    /\ pipe.kind = "merged" => (pipe = mergeCalls[1].result /\ pipe.id = 2)

C9_Witness ==
    /\ Len(evalCalls) = 1
    /\ Len(saved) = 1
    /\ saved[1].pipe.id = 2
    /\ evalCalls[1].pipe = saved[1].pipe

\* C10 as stated: the record's "time" value is the clock after the merge call
\* minus the clock before it.
C10_Original ==
    RecordBuilt =>
        Get(record, "time") = Num(mergeCalls[1].end - mergeCalls[1].begin)

\* The statement after pc when its call returns.
After(p) ==
    CASE p = "select" -> "load"
      [] p = "load" -> "t0"
      [] p = "t0" -> "merge"
      [] p = "merge" -> "dt"
      [] p = "dt" -> "save"
      [] p = "save" -> "evaluate"
      [] p = "evaluate" -> "record"
      [] p = "record" -> "open"
      [] p = "open" -> "dump"
      [] OTHER -> "done"

\* C10 amended: dt is the clock after the merge call minus the clock before
\* it, so it leaves out the time of the base pipeline load, the save and the
\* evaluation; the record's "time" value is dt unless the accuracy mapping
\* itself has a key "time"; and the statement run next depends on the position
\* alone, never on dt.
C10_MergeTimeOnly ==
    /\ [](/\ (pc \in {"save", "evaluate", "record"} \/ RecordBuilt) =>
               dt = mergeCalls[1].end - mergeCalls[1].begin
          /\ (RecordBuilt /\ "time" \notin Keys(res)) =>
               Get(record, "time") = Num(mergeCalls[1].end - mergeCalls[1].begin)
          /\ (pc = "done" /\ "time" \notin Keys(res)) =>
               Member(files[1].content, "time") =
                   [json |-> "number", s |-> "",
                    n |-> mergeCalls[1].end - mergeCalls[1].begin])
    /\ [][pc' = After(pc) \/ pc' = "failed"]_vars

C10_Witness ==
    /\ pc = "done"
    /\ "time" \notin Keys(res)
    /\ t0 > 0
    /\ clock > mergeCalls[1].end
    /\ mergeCalls[1].end > mergeCalls[1].begin
    /\ Get(record, "time") = Num(mergeCalls[1].end - mergeCalls[1].begin)

====
